---- MODULE Spec2Model ----
(***************************************************************************)
(* pix-engine: the fixed-timestep driver loop (PixEngine::run, main), the  *)
(* input latch (PixEngine.pressed), the CPU framebuffer (PixelBuffer) and  *)
(* the camera culling of blit_to_camera.                                   *)
(*                                                                         *)
(* Three specifications share the module:                                  *)
(*   Spec       the driver loop, one action per event the loop handles;    *)
(*   SpecCanvas the PixelBuffer operations clear, put, blit_rgba and       *)
(*              blit_to_camera, one action per call;                       *)
(*   SpecLine   PixelBuffer::line, one action per iteration of its loop.   *)
(***************************************************************************)
EXTENDS Integers, Sequences, FiniteSets, TLC

VARIABLES
    \* ---- driver loop (PixEngine::run) ----
    acc,        \* the f64 accumulator `acc`
    pressed,    \* PixEngine.pressed: HashSet<Key>
    running,    \* FALSE once window.next() has returned None
    calls,      \* the Scene calls made while handling the last event, in order
    lastEvent,  \* the event handled last
    pressed0,   \* `pressed` as it was when the last event arrived
    segFwd,     \* per key: the last two transitions forwarded to key_event
                \* since the last focus loss
    nUpdates,   \* Scene::update calls made so far
    fedHalves,  \* sum of the deltas fed so far, in units of FIXED_DT/2
    fedExact,   \* every delta fed so far was exactly its multiple of FIXED_DT/2
    nTicks,     \* update events handled so far
    \* ---- PixelBuffer operations ----
    canvas,     \* PixelBuffer.buf: the pixel at <<x, y>>
    canvas0,    \* the buffer before the last operation
    lastOp,     \* the last PixelBuffer call and its arguments
    \* ---- PixelBuffer::line ----
    lineArgs,   \* the arguments of the running line call
    lx, ly,     \* the mutable parameters x0, y0
    lerr,       \* the local err
    plots,      \* the (x, y) of every put call made so far by the line call
    pcLine      \* "loop" while the loop runs, "done" after the break

loopVars == <<acc, pressed, running, calls, lastEvent, pressed0, segFwd,
              nUpdates, fedHalves, fedExact, nTicks>>
canvasVars == <<canvas, canvas0, lastOp>>
lineVars == <<lineArgs, lx, ly, lerr, plots, pcLine>>
vars == <<loopVars, canvasVars, lineVars>>

(***************************************************************************)
(* Bounds of the model.                                                    *)
(***************************************************************************)
\* update events per behaviour
MaxTicks == 4
\* a candidate for the per-tick cap on catch-up steps; the deltas include one
\* of CandidateCap + 1 whole steps
CandidateCap == 2
\* the dimensions of the PixelBuffer (PixelBuffer::new(w, h))
CanvasW == 2
CanvasH == 2

(***************************************************************************)
(* f64 arithmetic.  A value is an exact multiple of 2^-59, written as      *)
(* <<hi, lo>> = hi * 2^30 + lo with 0 <= lo < 2^30 (hi < 0 for a negative  *)
(* value).  FIXED_DT = 1.0 / 60.0 is the double 0x1.1111111111111p-6, that *)
(* is 0x22222222222222 * 2^-59.  Sums and differences are computed exactly *)
(* and then rounded to 53 significant bits, ties to even, as IEEE 754      *)
(* addition and subtraction do.                                            *)
(***************************************************************************)
LimbBase == 2^30

Zero == <<0, 0>>

\* const FIXED_DT: f64 = 1.0 / 60.0
FIXED_DT == <<8947848, 572662306>>

\* the double FIXED_DT / 2 = 0x1.1111111111111p-7 (exact: a power-of-two scaling)
HalfStep == <<4473924, 286331153>>

Norm(hi, lo) == <<hi + (lo \div LimbBase), lo % LimbBase>>

ExactAdd(a, b) == Norm(a[1] + b[1], a[2] + b[2])

ExactSub(a, b) == Norm(a[1] - b[1], a[2] - b[2])

Negate(a) == ExactSub(Zero, a)

IsNeg(a) == a[1] < 0

\* a < b and a >= b on exact values
Less(a, b) == a[1] < b[1] \/ (a[1] = b[1] /\ a[2] < b[2])

Geq(a, b) == ~Less(a, b)

RECURSIVE BitLen(_)
BitLen(n) == IF n = 0 THEN 0 ELSE 1 + BitLen(n \div 2)

\* round a non-negative exact value to 53 significant bits, ties to even
RoundMag(a) ==
    LET len == IF a[1] = 0 THEN BitLen(a[2]) ELSE 30 + BitLen(a[1])
    IN  IF len <= 53 THEN a
        ELSE LET s    == len - 53
                 ulp  == 2^s
                 r    == a[2] % ulp
                 q    == <<a[1], a[2] - r>>
                 odd  == (a[2] \div ulp) % 2 = 1
                 up   == r * 2 > ulp \/ (r * 2 = ulp /\ odd)
             IN  IF up THEN ExactAdd(q, <<0, ulp>>) ELSE q

F64Round(a) == IF IsNeg(a) THEN Negate(RoundMag(Negate(a))) ELSE RoundMag(a)

\* a + b and a - b on doubles
F64Add(a, b) == F64Round(ExactAdd(a, b))

F64Sub(a, b) == F64Round(ExactSub(a, b))

\* the exact value k * (FIXED_DT / 2)
RECURSIVE HalfSteps(_)
HalfSteps(k) == IF k = 0 THEN Zero ELSE ExactAdd(HalfSteps(k - 1), HalfStep)

\* the double nearest to k * (FIXED_DT / 2): the UpdateArgs.dt of a tick
DeltaOf(k) == F64Round(HalfSteps(k))

\* whether k * (FIXED_DT / 2) is itself a double
DeltaExact(k) == DeltaOf(k) = HalfSteps(k)

\* the deltas of the model, in units of FIXED_DT / 2: half a step (the 120 UPS
\* tick of window.set_ups(120)), one step, two steps, and a stall of
\* CandidateCap + 1 steps
Deltas == {1, 2, 4, 2 * (CandidateCap + 1)}

(***************************************************************************)
(* The driver loop: PixEngine::run (lib.rs) and main (main.rs).            *)
(***************************************************************************)
Keys == {"A", "B"}

NoKey == "-"

\* the calls the loop makes on the scene
UpdateCall(dt) == [fn |-> "update", dt |-> dt, key |-> NoKey, down |-> FALSE]

DrawCall == [fn |-> "draw", dt |-> Zero, key |-> NoKey, down |-> FALSE]

KeyCall(k, down) == [fn |-> "key_event", dt |-> Zero, key |-> k, down |-> down]

\* the events window.next() yields: Button::Keyboard press and release, focus,
\* update, and every other event (render, idle, mouse buttons, ...)
Event(kind, k, focused, halves) ==
    [kind |-> kind, key |-> k, focused |-> focused, halves |-> halves]

NoFwd == <<"none", "none">>

Forwarded(pair, t) == <<pair[2], t>>

\* a faulty variant of DrainCond: while acc > FIXED_DT
DrainCondStrict(a) == Less(FIXED_DT, a)

\* while acc >= FIXED_DT
DrainCond(a) == Geq(a, FIXED_DT)

\* while acc >= FIXED_DT { scene.update(FIXED_DT, ..); acc -= FIXED_DT; }
\* gives <<the final acc, the number of update calls>>
RECURSIVE Drain(_, _)
Drain(a, n) ==
    IF DrainCond(a) THEN Drain(F64Sub(a, FIXED_DT), n + 1) ELSE <<a, n>>

\* a faulty variant of TickCalls: draw before the drain loop
TickCallsDrawFirst(n) == <<DrawCall>> \o [i \in 1..n |-> UpdateCall(FIXED_DT)]

\* the scene calls of one update event: n times scene.update(FIXED_DT, ..),
\* then scene.draw(..)
TickCalls(n) == [i \in 1..n |-> UpdateCall(FIXED_DT)] \o <<DrawCall>>

\* a faulty variant of PressCalls: the result of insert is ignored
PressCallsNoDedup(held, k) == <<KeyCall(k, TRUE)>>

\* if self.pressed.insert(k) { self.scene.key_event(k, true); }
PressCalls(held, k) == IF k \notin held THEN <<KeyCall(k, TRUE)>> ELSE <<>>

\* if self.pressed.remove(&k) { self.scene.key_event(k, false); }
ReleaseCalls(held, k) == IF k \in held THEN <<KeyCall(k, FALSE)>> ELSE <<>>

\* a faulty variant of FocusPressed: the held set is never cleared
FocusPressedKeep(held, focused) == held

\* if !focused { self.pressed.clear(); }
FocusPressed(held, focused) == IF ~focused THEN {} ELSE held

InitLoop ==
    /\ acc = Zero
    /\ pressed = {}
    /\ running = TRUE
    /\ calls = <<>>
    /\ lastEvent = Event("none", NoKey, TRUE, 0)
    /\ pressed0 = {}
    /\ segFwd = [k \in Keys |-> NoFwd]
    /\ nUpdates = 0
    /\ fedHalves = 0
    /\ fedExact = TRUE
    /\ nTicks = 0

TimingUnchanged == UNCHANGED <<acc, nUpdates, fedHalves, fedExact, nTicks>>

\* e.press_args() is Some(Button::Keyboard(k))
Press(k) ==
    /\ running
    /\ pressed' = pressed \cup {k}
    /\ calls' = PressCalls(pressed, k)
    /\ segFwd' = IF calls' # <<>>
                 THEN [segFwd EXCEPT ![k] = Forwarded(@, "down")]
                 ELSE segFwd
    /\ lastEvent' = Event("press", k, TRUE, 0)
    /\ pressed0' = pressed
    /\ UNCHANGED running
    /\ TimingUnchanged

\* e.release_args() is Some(Button::Keyboard(k))
Release(k) ==
    /\ running
    /\ pressed' = pressed \ {k}
    /\ calls' = ReleaseCalls(pressed, k)
    /\ segFwd' = IF calls' # <<>>
                 THEN [segFwd EXCEPT ![k] = Forwarded(@, "up")]
                 ELSE segFwd
    /\ lastEvent' = Event("release", k, TRUE, 0)
    /\ pressed0' = pressed
    /\ UNCHANGED running
    /\ TimingUnchanged

\* e.focus_args() is Some(focused)
Focus(focused) ==
    /\ running
    /\ pressed' = FocusPressed(pressed, focused)
    /\ calls' = <<>>
    /\ segFwd' = IF ~focused THEN [k \in Keys |-> NoFwd] ELSE segFwd
    /\ lastEvent' = Event("focus", NoKey, focused, 0)
    /\ pressed0' = pressed
    /\ UNCHANGED running
    /\ TimingUnchanged

\* e.update_args() is Some(u), u.dt the double nearest to k * FIXED_DT / 2
Update(k) ==
    /\ running
    /\ nTicks < MaxTicks
    /\ LET d == Drain(F64Add(acc, DeltaOf(k)), 0)
       IN  /\ acc' = d[1]
           /\ calls' = TickCalls(d[2])
           /\ nUpdates' = nUpdates + d[2]
    /\ fedHalves' = fedHalves + k
    /\ fedExact' = (fedExact /\ DeltaExact(k))
    /\ nTicks' = nTicks + 1
    /\ lastEvent' = Event("update", NoKey, TRUE, k)
    /\ pressed0' = pressed
    /\ UNCHANGED <<pressed, segFwd, running>>

\* any other event: no branch of the loop body but draw_2d acts on it
Other ==
    /\ running
    /\ calls' = <<>>
    /\ lastEvent' = Event("other", NoKey, TRUE, 0)
    /\ pressed0' = pressed
    /\ UNCHANGED <<pressed, segFwd, running>>
    /\ TimingUnchanged

\* window.next() returns None: the loop ends
Quit ==
    /\ running
    /\ running' = FALSE
    /\ calls' = <<>>
    /\ lastEvent' = Event("quit", NoKey, TRUE, 0)
    /\ pressed0' = pressed
    /\ UNCHANGED <<pressed, segFwd>>
    /\ TimingUnchanged

(***************************************************************************)
(* PixelBuffer.  A colour is <<r, g, b, a>>; the buffer maps <<x, y>> to   *)
(* the colour of that pixel.                                               *)
(***************************************************************************)
Pixels == (0..(CanvasW - 1)) \X (0..(CanvasH - 1))

OpaqueBlack == <<0, 0, 0, 255>>

\* PixelBuffer::new: ImageBuffer::from_pixel(w, h, Rgba([0, 0, 0, 255]))
NewBuffer == [p \in Pixels |-> OpaqueBlack]

\* the colours passed to clear and put
Colours == {OpaqueBlack, <<200, 100, 50, 255>>, <<10, 20, 30, 0>>, <<40, 80, 120, 64>>}

\* the colours a buffer holds before the call under study: any colour can be
\* stored by put
PriorColours == {OpaqueBlack, <<90, 60, 30, 64>>}

\* sprites: width, height and the row-major pixels (pixels[j * w + i])
Sprites ==
    { [w |-> 2, h |-> 2, pixels |-> << <<200, 100, 50, 255>>, <<10, 20, 30, 0>>,
                                       <<40, 80, 120, 64>>, <<250, 5, 5, 255>> >>],
      [w |-> 2, h |-> 1, pixels |-> << <<1, 2, 3, 0>>, <<255, 255, 255, 0>> >>],
      [w |-> 1, h |-> 2, pixels |-> << <<230, 120, 255, 255>>, <<40, 10, 60, 255>> >>] }

NoSprite == [w |-> 0, h |-> 0, pixels |-> <<>>]

\* a faulty variant of FastClear: fill(0) without the alpha fix-up
FastClearNoAlphaFix(buf) == [p \in Pixels |-> <<0, 0, 0, 0>>]

\* self.buf.as_mut().fill(0), then p.0[3] = 255 for every pixel
FastClear(buf) == [p \in Pixels |-> <<0, 0, 0, 255>>]

\* PixelBuffer::clear
Clear(buf, color) ==
    IF color = <<0, 0, 0, 255>>
    THEN FastClear(buf)
    ELSE [p \in Pixels |-> color]

\* PixelBuffer::put
Put(buf, x, y, c) ==
    IF x >= 0 /\ y >= 0 /\ x < CanvasW /\ y < CanvasH
    THEN [buf EXCEPT ![<<x, y>>] = c]
    ELSE buf

\* (s as f32 * a + dst as f32 * (1.0 - a)) as u8 with a = alpha as f32 / 255.0.
\* For the alphas of the sprites above (64 and 255; alpha 0 is skipped before)
\* the f32 expression and this integer one give the same byte for every s and
\* dst in 0..255.
BlendChannel(s, dst, alpha) == (s * alpha + dst * (255 - alpha)) \div 255

\* a faulty variant of SkipSource: transparent sprite pixels are blended too
SkipSourceNever(alpha) == FALSE

\* if a <= 0.0 { continue; }
SkipSource(alpha) == alpha <= 0

\* the body of blit_rgba's loops for the sprite pixel (i, j)
BlitPixel(buf, sx, sy, sprite, i, j) ==
    LET px == i + sx
        py == j + sy
    IN  IF px < 0 \/ py < 0 \/ px >= CanvasW \/ py >= CanvasH
        THEN buf
        ELSE LET s == sprite.pixels[j * sprite.w + i + 1]
             IN  IF SkipSource(s[4])
                 THEN buf
                 ELSE LET dst == buf[<<px, py>>]
                          out == <<BlendChannel(s[1], dst[1], s[4]),
                                   BlendChannel(s[2], dst[2], s[4]),
                                   BlendChannel(s[3], dst[3], s[4]),
                                   255>>
                      IN  [buf EXCEPT ![<<px, py>>] = out]

\* for j in 0..sh { for i in 0..sw { .. } }, from sprite pixel number n on
RECURSIVE BlitFrom(_, _, _, _, _)
BlitFrom(buf, sx, sy, sprite, n) ==
    IF n >= sprite.w * sprite.h
    THEN buf
    ELSE BlitFrom(BlitPixel(buf, sx, sy, sprite, n % sprite.w, n \div sprite.w),
                  sx, sy, sprite, n + 1)

\* PixelBuffer::blit_rgba
BlitRgba(buf, sx, sy, sprite) == BlitFrom(buf, sx, sy, sprite, 0)

(***************************************************************************)
(* Camera.  x and y are whole numbers and zoom is <<n, d>> = n / d with d  *)
(* a power of two, so every f32 operation below is exact on the model's    *)
(* values and floor and ceil are those of the exact quotient.              *)
(***************************************************************************)
Zooms == {<<1, 2>>, <<1, 1>>, <<2, 1>>}

Cameras ==
    { [x |-> cx, y |-> 0, viewport_w |-> CanvasW, viewport_h |-> CanvasH, zoom |-> z] :
        cx \in {0, 1}, z \in Zooms }

NoCamera == [x |-> 0, y |-> 0, viewport_w |-> 0, viewport_h |-> 0, zoom |-> <<1, 1>>]

\* (v * zoom).floor() as i32 and (v * zoom).ceil() as i32
FloorScaled(v, zoom) == (v * zoom[1]) \div zoom[2]

CeilScaled(v, zoom) == -((-(v * zoom[1])) \div zoom[2])

\* Camera::world_to_screen
WorldToScreen(cam, wx, wy) ==
    <<FloorScaled(wx - cam.x, cam.zoom), FloorScaled(wy - cam.y, cam.zoom)>>

\* sprite_visible
SpriteVisible(sx, sy, sw, sh, vw, vh) ==
    ~(sx >= vw \/ sy >= vh \/ sx + sw <= 0 \/ sy + sh <= 0)

\* the test of blit_to_camera: TRUE when it returns without blitting
Culled(cam, sprite, world_x, world_y) ==
    LET s  == WorldToScreen(cam, world_x, world_y)
        sw == CeilScaled(sprite.w, cam.zoom)
        sh == CeilScaled(sprite.h, cam.zoom)
    IN  ~SpriteVisible(s[1], s[2], sw, sh, cam.viewport_w, cam.viewport_h)

\* PixelBuffer::blit_to_camera
BlitToCamera(buf, cam, sprite, world_x, world_y) ==
    LET s == WorldToScreen(cam, world_x, world_y)
    IN  IF Culled(cam, sprite, world_x, world_y)
        THEN buf
        ELSE BlitRgba(buf, s[1], s[2], sprite)

\* a PixelBuffer call: its name, its arguments, and the blit_rgba call it made
Op(name, color, x, y, sprite, cam, blit, sx, sy) ==
    [name |-> name, color |-> color, x |-> x, y |-> y, sprite |-> sprite,
     cam |-> cam, blit |-> blit, sx |-> sx, sy |-> sy]

NoOp == Op("none", OpaqueBlack, 0, 0, NoSprite, NoCamera, FALSE, 0, 0)

\* the buffer of the driver loop and of a line call: as PixelBuffer::new left it
InitCanvasNew ==
    /\ canvas = NewBuffer
    /\ canvas0 = NewBuffer
    /\ lastOp = NoOp

\* the buffer before the call under study: any content put can have stored
InitCanvasAny ==
    /\ canvas \in [Pixels -> PriorColours]
    /\ canvas0 = canvas
    /\ lastOp = NoOp

\* fb.clear(color)
DoClear(color) ==
    /\ lastOp.name = "none"
    /\ canvas' = Clear(canvas, color)
    /\ canvas0' = canvas
    /\ lastOp' = Op("clear", color, 0, 0, NoSprite, NoCamera, FALSE, 0, 0)

\* fb.put(x, y, c)
DoPut(x, y, c) ==
    /\ lastOp.name = "none"
    /\ canvas' = Put(canvas, x, y, c)
    /\ canvas0' = canvas
    /\ lastOp' = Op("put", c, x, y, NoSprite, NoCamera, FALSE, 0, 0)

\* fb.blit_rgba(sx, sy, sprite.w, sprite.h, &sprite.pixels)
DoBlitRgba(sx, sy, sprite) ==
    /\ lastOp.name = "none"
    /\ canvas' = BlitRgba(canvas, sx, sy, sprite)
    /\ canvas0' = canvas
    /\ lastOp' = Op("blit_rgba", OpaqueBlack, 0, 0, sprite, NoCamera, TRUE, sx, sy)

\* fb.blit_to_camera(&cam, sprite.w, sprite.h, &sprite.pixels, wx, wy)
DoBlitToCamera(cam, sprite, wx, wy) ==
    /\ lastOp.name = "none"
    /\ canvas' = BlitToCamera(canvas, cam, sprite, wx, wy)
    /\ canvas0' = canvas
    /\ LET s == WorldToScreen(cam, wx, wy)
       IN  lastOp' = Op("blit_to_camera", OpaqueBlack, wx, wy, sprite, cam,
                        ~Culled(cam, sprite, wx, wy), s[1], s[2])

(***************************************************************************)
(* PixelBuffer::line.  The i32 arithmetic is that of the integers for the  *)
(* coordinates of the model: dx, dy, err and 2 * err stay far from 2^31.   *)
(* (Endpoints more than 2^30 apart overflow err or 2 * err; they are not   *)
(* among the coordinates drawn here.)                                      *)
(***************************************************************************)
Abs(n) == IF n < 0 THEN -n ELSE n

\* endpoints on the canvas and up to two pixels off it on every side
LineCoords == (-2)..(CanvasW + 1)

LineCall(x0, y0, x1, y1, c) == [x0 |-> x0, y0 |-> y0, x1 |-> x1, y1 |-> y1, c |-> c]

\* let dx = (x1 - x0).abs(); let sx = if x0 < x1 { 1 } else { -1 };
LineDx(a) == Abs(a.x1 - a.x0)

LineSx(a) == IF a.x0 < a.x1 THEN 1 ELSE -1

\* let dy = -(y1 - y0).abs(); let sy = if y0 < y1 { 1 } else { -1 };
LineDy(a) == -Abs(a.y1 - a.y0)

LineSy(a) == IF a.y0 < a.y1 THEN 1 ELSE -1

\* a faulty variant of LineBreak: the break tests x alone
LineBreakOnX(a, x, y) == x = a.x1

\* if x0 == x1 && y0 == y1 { break; }
LineBreak(a, x, y) == x = a.x1 /\ y = a.y1

\* no line call is running (the driver loop, the buffer operations)
InitLineIdle ==
    /\ lineArgs = LineCall(0, 0, 0, 0, OpaqueBlack)
    /\ lx = 0
    /\ ly = 0
    /\ lerr = 0
    /\ plots = <<>>
    /\ pcLine = "idle"

\* fb.line(x0, y0, x1, y1, c) has been entered: the locals are set and the loop
\* is about to run
InitLineCall ==
    /\ \E x0 \in LineCoords, y0 \in LineCoords, x1 \in LineCoords, y1 \in LineCoords :
            lineArgs = LineCall(x0, y0, x1, y1, <<200, 100, 50, 255>>)
    /\ lx = lineArgs.x0
    /\ ly = lineArgs.y0
    /\ lerr = LineDx(lineArgs) + LineDy(lineArgs)
    /\ plots = <<>>
    /\ pcLine = "loop"

\* one iteration of the loop
LineIter ==
    /\ pcLine = "loop"
    /\ canvas' = Put(canvas, lx, ly, lineArgs.c)
    /\ plots' = Append(plots, <<lx, ly>>)
    /\ IF LineBreak(lineArgs, lx, ly)
       THEN /\ pcLine' = "done"
            /\ UNCHANGED <<lx, ly, lerr>>
       ELSE LET e2    == 2 * lerr
                stepX == e2 >= LineDy(lineArgs)
                stepY == e2 <= LineDx(lineArgs)
            IN  /\ lx' = IF stepX THEN lx + LineSx(lineArgs) ELSE lx
                /\ ly' = IF stepY THEN ly + LineSy(lineArgs) ELSE ly
                /\ lerr' = lerr + (IF stepX THEN LineDy(lineArgs) ELSE 0)
                                + (IF stepY THEN LineDx(lineArgs) ELSE 0)
                /\ pcLine' = "loop"
    /\ UNCHANGED <<lineArgs, canvas0, lastOp>>

(***************************************************************************)
(* The specifications.                                                     *)
(***************************************************************************)
Init == InitLoop /\ InitCanvasNew /\ InitLineIdle

Next ==
    \/ \E k \in Keys : Press(k) /\ UNCHANGED <<canvasVars, lineVars>>
    \/ \E k \in Keys : Release(k) /\ UNCHANGED <<canvasVars, lineVars>>
    \/ \E f \in BOOLEAN : Focus(f) /\ UNCHANGED <<canvasVars, lineVars>>
    \/ \E k \in Deltas : Update(k) /\ UNCHANGED <<canvasVars, lineVars>>
    \/ Other /\ UNCHANGED <<canvasVars, lineVars>>
    \/ Quit /\ UNCHANGED <<canvasVars, lineVars>>

Spec == Init /\ [][Next]_vars

InitCanvas == InitLoop /\ InitCanvasAny /\ InitLineIdle

NextCanvas ==
    \/ \E c \in Colours : DoClear(c) /\ UNCHANGED <<loopVars, lineVars>>
    \/ \E x \in (-1)..CanvasW, y \in (-1)..CanvasH, c \in Colours :
            DoPut(x, y, c) /\ UNCHANGED <<loopVars, lineVars>>
    \/ \E sx \in (-2)..CanvasW, sy \in (-2)..CanvasH, sp \in Sprites :
            DoBlitRgba(sx, sy, sp) /\ UNCHANGED <<loopVars, lineVars>>
    \/ \E cam \in Cameras, sp \in Sprites, wx \in (-4)..CanvasW, wy \in {-2, 0} :
            DoBlitToCamera(cam, sp, wx, wy) /\ UNCHANGED <<loopVars, lineVars>>

SpecCanvas == InitCanvas /\ [][NextCanvas]_vars

InitLine == InitLoop /\ InitCanvasNew /\ InitLineCall

NextLine == LineIter /\ UNCHANGED loopVars

\* the loop of line is sequential code: it keeps running until its break
SpecLine == InitLine /\ [][NextLine]_vars /\ WF_vars(NextLine)

(***************************************************************************)
(* The claims.                                                             *)
(***************************************************************************)
UpdatesIn(cs) == Cardinality({i \in DOMAIN cs : cs[i].fn = "update"})

\* C1: starting from acc = 0, whenever the deltas fed so far sum to exactly
\* N * FIXED_DT, exactly N Scene::update calls have been made, whatever the
\* chunking, and every update call receives dt = FIXED_DT.
C1_UpdatesMatchElapsed ==
    /\ (fedExact /\ fedHalves % 2 = 0) => nUpdates = fedHalves \div 2
    /\ \A i \in DOMAIN calls : calls[i].fn = "update" => calls[i].dt = FIXED_DT

\* C2: an update event makes exactly one Scene::draw call, after all of its
\* Scene::update calls; any other event makes neither an update nor a draw call.
C2_DrawOnceAfterUpdates ==
    IF lastEvent.kind = "update"
    THEN /\ Len(calls) >= 1
         /\ calls[Len(calls)].fn = "draw"
         /\ \A i \in 1..(Len(calls) - 1) : calls[i].fn = "update"
    ELSE \A i \in DOMAIN calls : calls[i].fn \notin {"update", "draw"}

C2_Witness ==
    /\ lastEvent.kind = "update"
    /\ UpdatesIn(calls) >= 2
    /\ calls[Len(calls)].fn = "draw"

Alternates(pair) ==
    /\ pair[2] = "down" => pair[1] \in {"none", "up"}
    /\ pair[2] = "up" => pair[1] = "down"
    /\ pair[2] = "none" => pair[1] = "none"

\* C3: with no focus loss in between, the transitions forwarded to key_event
\* for a key alternate down, up, down, ... starting with down; a raw down of a
\* held key and a raw up of a key not held forward nothing, any other raw down
\* or up forwards exactly that transition; and a key is held exactly when the
\* last transition forwarded for it was down.
C3_KeyTransitionsAlternate ==
    /\ \A k \in Keys :
        /\ Alternates(segFwd[k])
        /\ k \in pressed <=> segFwd[k][2] = "down"
    /\ lastEvent.kind = "press" =>
          calls = IF lastEvent.key \in pressed0
                  THEN <<>> ELSE <<KeyCall(lastEvent.key, TRUE)>>
    /\ lastEvent.kind = "release" =>
          calls = IF lastEvent.key \in pressed0
                  THEN <<KeyCall(lastEvent.key, FALSE)>> ELSE <<>>

C3_Witness ==
    /\ lastEvent.kind = "press"
    /\ lastEvent.key \in pressed0
    /\ segFwd[lastEvent.key] = <<"up", "down">>
    /\ calls = <<>>

\* C4: a focus-lost event empties the held set and makes no key_event call; a
\* focus-gained event leaves the held set as it was and makes no call.
C4_FocusLossClearsSilently ==
    lastEvent.kind = "focus" =>
        /\ calls = <<>>
        /\ pressed = IF lastEvent.focused THEN pressed0 ELSE {}

C4_Witness ==
    /\ lastEvent.kind = "focus"
    /\ ~lastEvent.focused
    /\ pressed0 = Keys
    /\ pressed = {}

\* C5: after every update event, 0 <= acc < FIXED_DT.
C5_AccBelowStep ==
    lastEvent.kind = "update" => (~IsNeg(acc) /\ Less(acc, FIXED_DT))

C5_Witness ==
    /\ lastEvent.kind = "update"
    /\ UpdatesIn(calls) >= 2
    /\ acc # Zero

\* C6: the number of Scene::update calls of one update event never exceeds
\* the cap, however large the event's delta is.
C6_DrainCapped ==
    lastEvent.kind = "update" => UpdatesIn(calls) <= CandidateCap

SourceAt(op, p) ==
    LET i == p[1] - op.sx
        j == p[2] - op.sy
    IN  IF i >= 0 /\ i < op.sprite.w /\ j >= 0 /\ j < op.sprite.h
        THEN op.sprite.pixels[j * op.sprite.w + i + 1]
        ELSE <<>>

\* C8: blit_rgba leaves unchanged every canvas pixel outside the sprite
\* rectangle and every canvas pixel whose sprite pixel has alpha 0.
C8_BlitLeavesRest ==
    lastOp.blit =>
        \A p \in Pixels :
            (SourceAt(lastOp, p) = <<>> \/ SourceAt(lastOp, p)[4] = 0)
                => canvas[p] = canvas0[p]

C8_Witness ==
    /\ lastOp.name = "blit_rgba"
    /\ lastOp.sx < 0
    /\ \E p \in Pixels : canvas[p] # canvas0[p]
    /\ \E p \in Pixels :
          /\ SourceAt(lastOp, p) # <<>>
          /\ SourceAt(lastOp, p)[4] = 0
          /\ canvas0[p][4] # 255

C9_Path ==
    /\ plots # <<>> => plots[1] = <<lineArgs.x0, lineArgs.y0>>
    /\ \A i \in 2..Len(plots) :
          /\ Abs(plots[i][1] - plots[i - 1][1]) <= 1
          /\ Abs(plots[i][2] - plots[i - 1][2]) <= 1
    /\ pcLine = "done" =>
          /\ plots # <<>>
          /\ plots[Len(plots)] = <<lineArgs.x1, lineArgs.y1>>
          /\ (lineArgs.x0 = lineArgs.x1 /\ lineArgs.y0 = lineArgs.y1)
                => plots = << <<lineArgs.x0, lineArgs.y0>> >>

C10_CullingNoFalseNegative ==
    (lastOp.name = "blit_to_camera" /\ ~lastOp.blit) =>
        BlitRgba(canvas0, lastOp.sx, lastOp.sy, lastOp.sprite) = canvas0

====
